---- MODULE Spec2Model ----
(***************************************************************************)
(* Model of app/pdf_processor.py: the size-limited download, the text      *)
(* extraction, the single-URL pipeline extract_text_from_url and the       *)
(* semaphore-gated batch extract_text_from_multiple_urls.                  *)
(*                                                                         *)
(* Byte strings are modelled by their length.  Text and header values are  *)
(* sequences of one-character strings.  An exception is a record           *)
(* [kind, msg] where msg is the sequence of the fragments of its message.  *)
(***************************************************************************)
EXTENDS Integers, Sequences, FiniteSets, TLC

(* ---------------------------- bounds ---------------------------------- *)
\* self.max_file_size in bytes, scaled down (50 MiB in the configuration)
MaxFileSize == 3
\* largest chunk the transport hands over at once (8192 in the code), scaled
MaxChunk == 2
\* most chunks a response body has
MaxChunks == 3
\* longest content-length header value, in characters
MaxHeaderLen == 2
\* longest text of a page in a multi-page document
MaxPageLen == 1
\* most pages a document has
MaxPages == 2
\* longest text of the page of a one-page document
MaxTextLen == 4
\* longest batch
MaxUrls == 3
\* largest configured max_threads
MaxThreads == 2
\* the longest batch of the specification with fairness
MaxLiveUrls == 2

(* ------------------------ program constants --------------------------- *)
request_timeout == 30
\* ThreadPoolExecutor(max_workers=1), the only pool capacity of the code
max_workers == 1
max_file_size == MaxFileSize

(* ----------------------------- helpers -------------------------------- *)
RECURSIVE SeqsUpTo(_, _)
\* all sequences over S of length 0..n
SeqsUpTo(S, n) ==
  IF n = 0 THEN {<<>>}
  ELSE LET shorter == SeqsUpTo(S, n - 1)
       IN shorter \cup {Append(s, x) : s \in {t \in shorter : Len(t) = n - 1}, x \in S}

Digits == {ToString(d) : d \in 0..9}
DigitVal(c) == CHOOSE d \in 0..9 : ToString(d) = c

\* Python truthiness of a str or bytes value: non-empty
Truthy(s) == Len(s) > 0

(* ---------------------------- exceptions ------------------------------ *)
\* app/exceptions.py: the three domain kinds
DomainKinds == {"URLError", "TimeoutError", "PDFProcessingError"}

\* every kind of the model derives from Exception
ExceptionKinds ==
  DomainKinds \cup {"ClientError", "asyncio.TimeoutError", "ValueError", "FileDataError",
                    "Exception"}

Exc(kind, msg) == [kind |-> kind, msg |-> msg, value |-> 0, chunks_read |-> 0]
\* a normal return of a download: the content (its length) and the
\* number of chunks taken from the response
Ret(value, n) == [kind |-> "ok", msg |-> <<>>, value |-> value, chunks_read |-> n]

(* ----------------------------- download ------------------------------- *)
\* int(content_length): decimal digits give their value, anything else
\* raises ValueError
IsDecimal(h) == Len(h) > 0 /\ \A k \in 1..Len(h) : h[k] \in Digits

RECURSIVE IntOf(_)
IntOf(h) == IF Len(h) = 0 THEN 0
            ELSE 10 * IntOf(SubSeq(h, 1, Len(h) - 1)) + DigitVal(h[Len(h)])

RECURSIVE ReadLoopInclusive(_, _, _, _, _)
ReadLoopInclusive(chunks, end, limit, content, n) ==
  IF n = Len(chunks)
  THEN CASE end = "eof" -> Ret(content, n)
         [] end = "client" -> [Exc("ClientError", <<"payload error">>) EXCEPT !.chunks_read = n]
         [] OTHER -> [Exc("asyncio.TimeoutError", <<>>) EXCEPT !.chunks_read = n]
  ELSE LET content1 == content + chunks[n + 1]
       IN IF content1 >= limit
          THEN [Exc("URLError", <<"File exceeds maximum size limit of ", ToString(limit), " bytes">>)
                  EXCEPT !.chunks_read = n + 1]
          ELSE ReadLoopInclusive(chunks, end, limit, content1, n + 1)

RECURSIVE ReadLoop(_, _, _, _, _)
\* the async-for loop of _read_with_limit: content is the size accumulated
\* so far, n the number of chunks read so far
ReadLoop(chunks, end, limit, content, n) ==
  IF n = Len(chunks)
  THEN CASE end = "eof" -> Ret(content, n)
         [] end = "client" -> [Exc("ClientError", <<"payload error">>) EXCEPT !.chunks_read = n]
         [] OTHER -> [Exc("asyncio.TimeoutError", <<>>) EXCEPT !.chunks_read = n]
  ELSE LET content1 == content + chunks[n + 1]
       IN IF content1 > limit
          THEN [Exc("URLError", <<"File exceeds maximum size limit of ", ToString(limit), " bytes">>)
                  EXCEPT !.chunks_read = n + 1]
          ELSE ReadLoop(chunks, end, limit, content1, n + 1)

_read_with_limit(response, limit) ==
  ReadLoop(response.chunks, response.end, limit, 0, 0)

DownloadBodyInclusive(response) ==
  IF response.conn = "timeout" THEN Exc("asyncio.TimeoutError", <<>>)
  ELSE IF response.conn = "client" THEN Exc("ClientError", <<"connection failed">>)
  ELSE IF response.status # 200
    THEN Exc("URLError", <<"HTTP ", ToString(response.status), ": ", response.reason>>)
  ELSE LET content_length == response.content_length
       IN IF content_length.present /\ Truthy(content_length.val)
             /\ ~IsDecimal(content_length.val)
          THEN Exc("ValueError", <<"invalid literal for int() with base 10: ">> \o content_length.val)
          ELSE IF content_length.present /\ Truthy(content_length.val)
                  /\ IntOf(content_length.val) >= max_file_size
          THEN Exc("URLError", <<"File too large: ">> \o content_length.val \o <<" bytes">>)
          ELSE LET content == _read_with_limit(response, max_file_size)
               IN IF content.kind = "ok" /\ content.value = 0
                  THEN [Exc("URLError", <<"Empty file downloaded">>)
                          EXCEPT !.chunks_read = content.chunks_read]
                  ELSE content

\* the body of the try block of _download_pdf
DownloadBody(response) ==
  IF response.conn = "timeout" THEN Exc("asyncio.TimeoutError", <<>>)
  ELSE IF response.conn = "client" THEN Exc("ClientError", <<"connection failed">>)
  ELSE IF response.status # 200
    THEN Exc("URLError", <<"HTTP ", ToString(response.status), ": ", response.reason>>)
  ELSE LET content_length == response.content_length
       IN IF content_length.present /\ Truthy(content_length.val)
             /\ ~IsDecimal(content_length.val)
          THEN Exc("ValueError", <<"invalid literal for int() with base 10: ">> \o content_length.val)
          ELSE IF content_length.present /\ Truthy(content_length.val)
                  /\ IntOf(content_length.val) > max_file_size
          THEN Exc("URLError", <<"File too large: ">> \o content_length.val \o <<" bytes">>)
          ELSE LET content == _read_with_limit(response, max_file_size)
               IN IF content.kind = "ok" /\ content.value = 0
                  THEN [Exc("URLError", <<"Empty file downloaded">>)
                          EXCEPT !.chunks_read = content.chunks_read]
                  ELSE content

\* the except clauses of _download_pdf
DownloadExcept(r) ==
  CASE r.kind = "asyncio.TimeoutError" ->
         [r EXCEPT !.kind = "TimeoutError",
                   !.msg = <<"Download timed out after ", ToString(request_timeout), " seconds">>]
    [] r.kind = "ClientError" ->
         [r EXCEPT !.kind = "URLError", !.msg = <<"Download failed: ">> \o r.msg]
    [] OTHER -> r

_download_pdf(response) == DownloadExcept(DownloadBody(response))

(* the responses the transport can produce *)
NoHeader == [present |-> FALSE, val |-> <<>>]
Header(h) == [present |-> TRUE, val |-> h]

HeaderChars == {ToString(0), ToString(max_file_size), ToString(max_file_size + 1), "x"}
HeaderValues == {NoHeader} \cup {Header(h) : h \in SeqsUpTo(HeaderChars, MaxHeaderLen)}
Bodies == SeqsUpTo(1..MaxChunk, MaxChunks)

Response(conn, status, reason, cl, chunks, end) ==
  [conn |-> conn, status |-> status, reason |-> reason, content_length |-> cl,
   chunks |-> chunks, end |-> end]

Responses ==
  {Response(c, 200, "OK", NoHeader, <<>>, "eof") : c \in {"client", "timeout"}}
  \cup {Response("ok", 404, "Not Found", NoHeader, <<>>, "eof")}
  \cup {Response("ok", 200, "OK", cl, b, e) :
          cl \in HeaderValues, b \in Bodies, e \in {"eof", "client", "timeout"}}

(* ------------------------------ text ---------------------------------- *)
\* the characters str.strip() removes
Whitespace == {" ", "\t", "\n", "\r", "\f"}

RECURSIVE LStrip(_)
LStrip(s) == IF Len(s) > 0 /\ s[1] \in Whitespace THEN LStrip(Tail(s)) ELSE s

RECURSIVE RStrip(_)
RStrip(s) == IF Len(s) > 0 /\ s[Len(s)] \in Whitespace
             THEN RStrip(SubSeq(s, 1, Len(s) - 1)) ELSE s

\* str.strip()
Strip(s) == CHOOSE r \in {RStrip(l) : l \in {LStrip(x) : x \in {s}}} : TRUE

RECURSIVE Split(_, _)
\* str.split(sep) for a one-character separator: a sequence of lines
Split(s, sep) ==
  IF \A k \in 1..Len(s) : s[k] # sep THEN <<s>>
  ELSE LET k == CHOOSE j \in 1..Len(s) : s[j] = sep /\ \A m \in 1..(j - 1) : s[m] # sep
       IN <<SubSeq(s, 1, k - 1)>> \o Split(SubSeq(s, k + 1, Len(s)), sep)

RECURSIVE Join(_, _)
\* sep.join(parts)
Join(parts, sep) ==
  IF Len(parts) = 0 THEN <<>>
  ELSE IF Len(parts) = 1 THEN parts[1]
  ELSE parts[1] \o sep \o Join(Tail(parts), sep)

RECURSIVE CollapseSpaces(_)
\* re.sub(r' +', ' ', s)
CollapseSpaces(s) ==
  IF Len(s) = 0 THEN <<>>
  ELSE IF Len(s) >= 2 /\ s[1] = " " /\ s[2] = " " THEN CollapseSpaces(Tail(s))
  ELSE <<s[1]>> \o CollapseSpaces(Tail(s))

RECURSIVE CleanLinesNoStrip(_)
CleanLinesNoStrip(lines) ==
  IF Len(lines) = 0 THEN <<>>
  ELSE LET line == lines[1]
       IN IF Truthy(line) THEN <<line>> \o CleanLinesNoStrip(Tail(lines))
          ELSE CleanLinesNoStrip(Tail(lines))

RECURSIVE CleanLines(_)
\* the for loop of _clean_text: strip every line, skip the empty ones
CleanLines(lines) ==
  IF Len(lines) = 0 THEN <<>>
  ELSE LET line == Strip(lines[1])
       IN IF Truthy(line) THEN <<line>> \o CleanLines(Tail(lines))
          ELSE CleanLines(Tail(lines))

\* every local is assigned once: the set of the one value binds it
_clean_text(text) ==
  CHOOSE cleaned_text \in
    {CollapseSpaces(joined) :
       joined \in {Join(cleaned_lines, <<"\n">>) :
         cleaned_lines \in {CleanLines(lines) :
           lines \in {Split(t, "\n") : t \in {text}}}}} : TRUE

(* ---------------------------- extraction ------------------------------ *)
TextExc(kind, msg, visited) ==
  [kind |-> kind, msg |-> msg, text |-> <<>>, pages_visited |-> visited]
TextRet(text, visited) ==
  [kind |-> "ok", msg |-> <<>>, text |-> text, pages_visited |-> visited]

RECURSIVE TextPartsKeepBlank(_)
TextPartsKeepBlank(pages) ==
  IF Len(pages) = 0 THEN <<>>
  ELSE LET page == pages[1]
       IN IF ~page.raises
          THEN <<page.text>> \o TextPartsKeepBlank(Tail(pages))
          ELSE TextPartsKeepBlank(Tail(pages))

RECURSIVE TextPartsAbort(_)
TextPartsAbort(pages) ==
  IF Len(pages) = 0 THEN <<>>
  ELSE LET page == pages[1]
       IN IF page.raises THEN <<>>
          ELSE IF Truthy(Strip(page.text))
          THEN <<page.text>> \o TextPartsAbort(Tail(pages))
          ELSE TextPartsAbort(Tail(pages))

RECURSIVE TextParts(_)
\* the page loop of _extract_text_from_bytes: a page whose get_text raises
\* or whose text is blank contributes nothing
TextParts(pages) ==
  IF Len(pages) = 0 THEN <<>>
  ELSE LET page == pages[1]
       IN IF ~page.raises /\ Truthy(Strip(page.text))
          THEN <<page.text>> \o TextParts(Tail(pages))
          ELSE TextParts(Tail(pages))

ExtractBodyPagesFirst(doc) ==
  IF doc.open = "FileDataError" THEN TextExc("FileDataError", <<"cannot open document">>, 0)
  ELSE IF doc.open = "error" THEN TextExc("Exception", <<"Invalid PDF format">>, 0)
  ELSE IF Len(doc.pages) = 0
    THEN TextExc("PDFProcessingError", <<"PDF has no pages">>, 0)
  ELSE IF doc.is_encrypted
    THEN TextExc("PDFProcessingError", <<"PDF is encrypted and cannot be processed">>, 0)
  ELSE LET text_parts == TextParts(doc.pages)
       IN IF ~Truthy(text_parts)
          THEN TextExc("PDFProcessingError", <<"No readable text found in PDF">>, Len(doc.pages))
          ELSE TextRet(_clean_text(Join(text_parts, <<"\n", "\n">>)), Len(doc.pages))

\* the body of the try block of _extract_text_from_bytes
ExtractBody(doc) ==
  IF doc.open = "FileDataError" THEN TextExc("FileDataError", <<"cannot open document">>, 0)
  ELSE IF doc.open = "error" THEN TextExc("Exception", <<"Invalid PDF format">>, 0)
  ELSE IF doc.is_encrypted
    THEN TextExc("PDFProcessingError", <<"PDF is encrypted and cannot be processed">>, 0)
  ELSE IF Len(doc.pages) = 0
    THEN TextExc("PDFProcessingError", <<"PDF has no pages">>, 0)
  ELSE LET text_parts == TextParts(doc.pages)
       IN IF ~Truthy(text_parts)
          THEN TextExc("PDFProcessingError", <<"No readable text found in PDF">>, Len(doc.pages))
          ELSE TextRet(_clean_text(Join(text_parts, <<"\n", "\n">>)), Len(doc.pages))

\* the except clauses of _extract_text_from_bytes
ExtractExcept(r) ==
  CASE r.kind = "FileDataError" ->
         [r EXCEPT !.kind = "PDFProcessingError", !.msg = <<"Invalid or corrupted PDF file">>]
    [] r.kind \notin {"ok", "PDFProcessingError"} ->
         [r EXCEPT !.kind = "PDFProcessingError", !.msg = <<"PDF processing failed: ">> \o r.msg]
    [] OTHER -> r

_extract_text_from_bytes(doc) == ExtractExcept(ExtractBody(doc))

(* the documents the parser can report *)
Page(raises, text) == [raises |-> raises, text |-> text]
Doc(open, enc, pages) == [open |-> open, is_encrypted |-> enc, pages |-> pages]

(* ------------------------ extract_text_from_url ----------------------- *)
\* lines 54-57: the emptiness check and the final strip
CheckText(r) ==
  IF r.kind # "ok" THEN r
  ELSE IF ~Truthy(r.text) \/ ~Truthy(Strip(r.text))
    THEN TextExc("PDFProcessingError", <<"No text content found in PDF">>, r.pages_visited)
  ELSE [r EXCEPT !.text = Strip(r.text)]

\* what extract_text_from_url raises
Raise(kind, msg) == [kind |-> kind, msg |-> msg, text |-> <<>>]

UrlExceptWrapAll(kind, msg) ==
  CASE kind = "ClientError" -> Raise("URLError", <<"Failed to download PDF: ">> \o msg)
    [] kind = "asyncio.TimeoutError" ->
         Raise("TimeoutError",
               <<"Request timed out after ", ToString(request_timeout), " seconds">>)
    [] OTHER -> Raise("PDFProcessingError", <<"Unexpected error: ">> \o msg)

UrlExceptNoWrap(kind, msg) ==
  CASE kind = "ClientError" -> Raise("URLError", <<"Failed to download PDF: ">> \o msg)
    [] kind = "asyncio.TimeoutError" ->
         Raise("TimeoutError",
               <<"Request timed out after ", ToString(request_timeout), " seconds">>)
    [] OTHER -> Raise(kind, msg)

\* lines 59-66: the except clauses of extract_text_from_url
UrlExcept(kind, msg) ==
  CASE kind = "ClientError" -> Raise("URLError", <<"Failed to download PDF: ">> \o msg)
    [] kind = "asyncio.TimeoutError" ->
         Raise("TimeoutError",
               <<"Request timed out after ", ToString(request_timeout), " seconds">>)
    [] kind \in DomainKinds -> Raise(kind, msg)
    [] OTHER -> Raise("PDFProcessingError", <<"Unexpected error: ">> \o msg)

(* --------------------- the environment of a run ----------------------- *)
Chars == {"a", "b", " ", "\n", "\t"}

\* a small transport: a one-chunk body, a 404 and a connect timeout
SmallResponses ==
  {Response("ok", 200, "OK", NoHeader, <<1>>, "eof"),
   Response("ok", 404, "Not Found", NoHeader, <<>>, "eof"),
   Response("timeout", 200, "OK", NoHeader, <<>>, "eof")}

\* a small parser: a readable page, an encrypted document
SmallDocs ==
  {Doc("ok", FALSE, <<Page(FALSE, <<"a">>)>>),
   Doc("ok", TRUE, <<Page(FALSE, <<"a">>)>>)}

\* the pages of the multi-page documents: short texts, or get_text raises
PageSet == {Page(FALSE, t) : t \in SeqsUpTo(Chars, MaxPageLen)} \cup {Page(TRUE, <<>>)}
PageDocs == {Doc("ok", e, ps) : e \in BOOLEAN, ps \in SeqsUpTo(PageSet, MaxPages)}
\* one-page documents with every text of at most MaxTextLen characters
TextDocs == {Doc("ok", FALSE, <<Page(FALSE, t)>>) : t \in SeqsUpTo(Chars, MaxTextLen)}
\* fitz.open raises
FailDocs == {Doc("FileDataError", FALSE, <<>>), Doc("error", FALSE, <<>>)}
Docs == PageDocs \cup TextDocs \cup FailDocs

URLs == {"u1", "u2"}

(* ------------------------------ state --------------------------------- *)
VARIABLES
  urls,         \* the argument of extract_text_from_multiple_urls
  max_threads,  \* self.max_threads
  net,          \* the transport of the run: "small" or "all" responses
  parser,       \* the parser of the run: "small" or "all" documents
  sem,          \* semaphore._value
  pc,           \* per task: "waiting", "download", "extract", "finished"
  response,     \* per task: the response its download received
  dl,           \* per task: what _download_pdf returned or raised
  pdf_content,  \* per task: the local pdf_content (its length), None before
  doc,          \* per task: the document its extraction opened
  ex,           \* per task: what _extract_text_from_bytes returned or raised
  outcome,      \* per task: what extract_text_from_url returned or raised
  starts,       \* per task: number of extract_text_from_url calls
  downloads,    \* per task: number of _download_pdf calls
  done,         \* the completion queue of asyncio.as_completed
  results,      \* the local dict results
  errors,       \* the local dict errors
  escaped,      \* an exception left extract_text_from_multiple_urls
  bpc,          \* "running", "returned" or "raised"
  ret,          \* the returned dict (its three counts)
  processor,    \* what api.pdf_processor.extract_text_from_url is: "PDFProcessor"
                \* or the "mock" the API tests patch in
  http          \* the response of POST /get_text, NoHttp before

vars == <<urls, max_threads, net, parser, sem, pc, response, dl, pdf_content, doc, ex,
          outcome, starts, downloads, done, results, errors, escaped, bpc, ret,
          processor, http>>

Tasks == 1..Len(urls)

\* the responses session.get may deliver in this run
Net == IF net = "small" THEN SmallResponses ELSE Responses
\* the documents fitz.open may report in this run
Parser == IF parser = "small" THEN SmallDocs ELSE Docs

None == [some |-> FALSE, v |-> <<>>]
Some(v) == [some |-> TRUE, v |-> v]

NoResponse == Response("none", 0, "", NoHeader, <<>>, "eof")
NoDl == [kind |-> "none", msg |-> <<>>, value |-> 0, chunks_read |-> 0]
NoDoc == Doc("none", FALSE, <<>>)
NoEx == [kind |-> "none", msg |-> <<>>, text |-> <<>>, pages_visited |-> 0]
NoOutcome == [kind |-> "none", msg |-> <<>>, text |-> <<>>]
NoRet == [total_processed |-> 0, successful |-> 0, failed |-> 0]
NoHttp == [status_code |-> 0, detail |-> <<>>, text |-> <<>>, character_count |-> 0]

InitWith(urlLists, transport, documents) ==
  /\ urls \in urlLists
  /\ max_threads \in 1..MaxThreads
  /\ net = transport
  /\ parser = documents
  /\ sem = max_threads
  /\ pc = [i \in Tasks |-> "waiting"]
  /\ response = [i \in Tasks |-> NoResponse]
  /\ dl = [i \in Tasks |-> NoDl]
  /\ pdf_content = [i \in Tasks |-> -1]
  /\ doc = [i \in Tasks |-> NoDoc]
  /\ ex = [i \in Tasks |-> NoEx]
  /\ outcome = [i \in Tasks |-> NoOutcome]
  /\ starts = [i \in Tasks |-> 0]
  /\ downloads = [i \in Tasks |-> 0]
  /\ done = <<>>
  /\ results = <<>>
  /\ errors = <<>>
  /\ escaped = FALSE
  /\ bpc = "running"
  /\ ret = NoRet
  /\ http = NoHttp

\* a batch over any list of at most MaxUrls URLs, small transport and parser
Init == InitWith(SeqsUpTo(URLs, MaxUrls), "small", "small") /\ processor = "PDFProcessor"

(* ----------------------------- actions -------------------------------- *)
process_single_url_narrow(url, out) ==
  IF out.kind = "ok"
  THEN [url |-> url, text |-> Some(out.text), error |-> None, raised |-> FALSE]
  ELSE IF out.kind = "URLError"
    THEN [url |-> url, text |-> None, error |-> Some(out.msg), raised |-> FALSE]
  ELSE [url |-> url, text |-> None, error |-> None, raised |-> TRUE]

\* process_single_url, lines 238-242: the tuple the task returns
process_single_url(url, out) ==
  IF out.kind = "ok"
  THEN [url |-> url, text |-> Some(out.text), error |-> None, raised |-> FALSE]
  ELSE IF out.kind \in ExceptionKinds
    THEN [url |-> url, text |-> None, error |-> Some(out.msg), raised |-> FALSE]
  ELSE [url |-> url, text |-> None, error |-> None, raised |-> TRUE]

FinishLeak(i, out) ==
  /\ outcome' = [outcome EXCEPT ![i] = out]
  /\ pc' = [pc EXCEPT ![i] = "finished"]
  /\ sem' = IF out.kind = "ok" THEN sem + 1 ELSE sem
  /\ done' = Append(done, process_single_url(urls[i], out))

FinishRetry(i, out) ==
  /\ outcome' = [outcome EXCEPT ![i] = out]
  /\ pc' = [pc EXCEPT ![i] = IF out.kind = "ok" \/ starts[i] >= 2 THEN "finished" ELSE "waiting"]
  /\ sem' = sem + 1
  /\ done' = IF out.kind = "ok" \/ starts[i] >= 2
             THEN Append(done, process_single_url(urls[i], out)) ELSE done

\* the task of URL i ends: extract_text_from_url has returned or raised
\* out, process_single_url returns its tuple, the semaphore is released and
\* the task enters the completion queue
Finish(i, out) ==
  /\ outcome' = [outcome EXCEPT ![i] = out]
  /\ pc' = [pc EXCEPT ![i] = "finished"]
  /\ sem' = sem + 1
  /\ done' = Append(done, process_single_url(urls[i], out))

AdmitUngated(i) ==
  /\ bpc = "running"
  /\ pc[i] = "waiting"
  /\ sem' = sem - 1
  /\ pc' = [pc EXCEPT ![i] = "download"]
  /\ starts' = [starts EXCEPT ![i] = @ + 1]
  /\ downloads' = [downloads EXCEPT ![i] = @ + 1]
  /\ UNCHANGED <<urls, max_threads, net, parser, processor, http,
                 response, dl, pdf_content, doc, ex,
                 outcome, done, results, errors, escaped, bpc, ret>>

\* async with semaphore: a waiting task takes a permit and calls
\* extract_text_from_url, which calls _download_pdf
Admit(i) ==
  /\ bpc = "running"
  /\ pc[i] = "waiting"
  /\ sem > 0
  /\ sem' = sem - 1
  /\ pc' = [pc EXCEPT ![i] = "download"]
  /\ starts' = [starts EXCEPT ![i] = @ + 1]
  /\ downloads' = [downloads EXCEPT ![i] = @ + 1]
  /\ UNCHANGED <<urls, max_threads, net, parser, processor, http,
                 response, dl, pdf_content, doc, ex,
                 outcome, done, results, errors, escaped, bpc, ret>>

DownloadDoneAlwaysExtract(i) ==
  /\ pc[i] = "download"
  /\ \E r \in Net :
       LET d == _download_pdf(r)
       IN /\ response' = [response EXCEPT ![i] = r]
          /\ dl' = [dl EXCEPT ![i] = d]
          /\ pdf_content' = [pdf_content EXCEPT ![i] = d.value]
          /\ pc' = [pc EXCEPT ![i] = "extract"]
          /\ UNCHANGED <<outcome, sem, done>>
  /\ UNCHANGED <<urls, max_threads, net, parser, processor, http,
                 doc, ex, starts, downloads,
                 results, errors, escaped, bpc, ret>>

\* _download_pdf returns or raises; on success the extraction is handed to
\* the executor, on failure the exception passes the except clauses of
\* extract_text_from_url and the task ends
DownloadDone(i) ==
  /\ pc[i] = "download"
  /\ \E r \in Net :
       LET d == _download_pdf(r)
       IN /\ response' = [response EXCEPT ![i] = r]
          /\ dl' = [dl EXCEPT ![i] = d]
          /\ IF d.kind = "ok"
             THEN /\ pdf_content' = [pdf_content EXCEPT ![i] = d.value]
                  /\ pc' = [pc EXCEPT ![i] = "extract"]
                  /\ UNCHANGED <<outcome, sem, done>>
             ELSE /\ Finish(i, UrlExcept(d.kind, d.msg))
                  /\ UNCHANGED pdf_content
  /\ UNCHANGED <<urls, max_threads, net, parser, processor, http,
                 doc, ex, starts, downloads,
                 results, errors, escaped, bpc, ret>>

\* the executor finishes _extract_text_from_bytes; lines 54-57 check and
\* strip the text, and the task ends
ExtractDone(i) ==
  /\ pc[i] = "extract"
  /\ \E d \in Parser :
       LET e == _extract_text_from_bytes(d)
           c == CheckText(e)
       IN /\ doc' = [doc EXCEPT ![i] = d]
          /\ ex' = [ex EXCEPT ![i] = e]
          /\ IF c.kind = "ok"
             THEN Finish(i, [kind |-> "ok", msg |-> <<>>, text |-> c.text])
             ELSE Finish(i, UrlExcept(c.kind, c.msg))
  /\ UNCHANGED <<urls, max_threads, net, parser, processor, http,
                 response, dl, pdf_content, starts,
                 downloads, results, errors, escaped, bpc, ret>>

\* dict[key] = value
Put(d, key, value) == [k \in DOMAIN d \cup {key} |-> IF k = key THEN value ELSE d[k]]

\* lines 247-252: one iteration of the as_completed loop
Collect ==
  /\ bpc = "running"
  /\ Len(done) > 0
  /\ LET t == Head(done)
     IN IF t.raised
        THEN \* await task re-raises what the task raised
             /\ escaped' = TRUE
             /\ bpc' = "raised"
             /\ UNCHANGED <<results, errors>>
        ELSE IF t.error.some /\ Truthy(t.error.v)
        THEN /\ errors' = Put(errors, t.url, t.error.v)
             /\ UNCHANGED <<results, escaped, bpc>>
        ELSE /\ results' = Put(results, t.url, t.text)
             /\ UNCHANGED <<errors, escaped, bpc>>
  /\ done' = Tail(done)
  /\ UNCHANGED <<urls, max_threads, net, parser, processor, http,
                 sem, pc, response, dl, pdf_content, doc,
                 ex, outcome, starts, downloads, ret>>

\* lines 254-260: every task has been yielded, the dict is returned
Return ==
  /\ bpc = "running"
  /\ \A i \in Tasks : pc[i] = "finished"
  /\ done = <<>>
  /\ ret' = [total_processed |-> Len(urls),
             successful |-> Cardinality(DOMAIN results),
             failed |-> Cardinality(DOMAIN errors)]
  /\ bpc' = "returned"
  /\ UNCHANGED <<urls, max_threads, net, parser, processor, http,
                 sem, pc, response, dl, pdf_content, doc,
                 ex, outcome, starts, downloads, done, results, errors, escaped>>

Next ==
  \/ \E i \in Tasks : Admit(i)
  \/ \E i \in Tasks : DownloadDone(i)
  \/ \E i \in Tasks : ExtractDone(i)
  \/ Collect
  \/ Return

Spec == Init /\ [][Next]_vars

\* one URL, every response of the bounded transport
InitUrl == InitWith({<<"u1">>}, "all", "small") /\ processor = "PDFProcessor"

SpecUrl == InitUrl /\ [][Next]_vars

\* a batch under the scheduling of the event loop: a task that can run is
\* run, and every download and every extraction ends
InitLive ==
  InitWith(SeqsUpTo({"u1"}, MaxLiveUrls), "small", "small") /\ processor = "PDFProcessor"

SpecLive == InitLive /\ [][Next]_vars /\ WF_vars(Next)

\* one URL, every document of the bounded parser
InitExtract == InitWith({<<"u1">>}, "small", "all") /\ processor = "PDFProcessor"

SpecExtract == InitExtract /\ [][Next]_vars

(* --------------------------- POST /get_text --------------------------- *)
\* raise HTTPException(status_code, detail), which http_exception_handler
\* renders with the status of the exception
HTTPException(status_code, detail) ==
  [status_code |-> status_code, detail |-> detail, text |-> <<>>, character_count |-> 0]

\* return TextResponse(...): FastAPI answers 200
TextResponse(text, character_count) ==
  [status_code |-> 200, detail |-> <<>>, text |-> text, character_count |-> character_count]

extract_text_from_pdfGenericFirst(out) ==
  CASE out.kind = "ok" -> TextResponse(out.text, Len(out.text))
    [] out.kind \in ExceptionKinds -> HTTPException(500, <<"Internal server error">>)
    [] OTHER -> HTTPException(422, <<"PDF processing error: ">> \o out.msg)

\* the handler of /get_text on what the awaited extract_text_from_url
\* returned or raised: the first except clause that matches answers
extract_text_from_pdf(out) ==
  CASE out.kind = "ok" -> TextResponse(out.text, Len(out.text))
    [] out.kind = "URLError" -> HTTPException(400, <<"URL error: ">> \o out.msg)
    [] out.kind = "TimeoutError" -> HTTPException(408, <<"Request timeout: ">> \o out.msg)
    [] out.kind = "PDFProcessingError" ->
         HTTPException(422, <<"PDF processing error: ">> \o out.msg)
    [] OTHER -> HTTPException(500, <<"Internal server error">>)

\* extract_text_from_url of PDFProcessor on the response r its download
\* receives and the document d its extraction opens
extract_text_from_url(r, d) ==
  LET got == _download_pdf(r)
  IN IF got.kind # "ok" THEN UrlExcept(got.kind, got.msg)
     ELSE LET c == CheckText(_extract_text_from_bytes(d))
          IN IF c.kind = "ok" THEN [kind |-> "ok", msg |-> <<>>, text |-> c.text]
             ELSE UrlExcept(c.kind, c.msg)

\* what the patched extract_text_from_url of the API tests returns or raises
SideEffects ==
  {Raise(k, <<"Unexpected error">>) : k \in ExceptionKinds}
  \cup {[kind |-> "ok", msg |-> <<>>, text |-> t] : t \in {<<"a">>, <<"a", " ", "b">>}}

\* one request to /get_text, from the call of the handler to its response
get_text ==
  /\ http = NoHttp
  /\ \/ /\ processor = "PDFProcessor"
        /\ \E r \in Net :
             IF _download_pdf(r).kind # "ok"
             THEN /\ response' = [response EXCEPT ![1] = r]
                  /\ outcome' = [outcome EXCEPT ![1] = extract_text_from_url(r, NoDoc)]
                  /\ http' = extract_text_from_pdf(extract_text_from_url(r, NoDoc))
                  /\ UNCHANGED doc
             ELSE \E d \in Parser :
                  /\ response' = [response EXCEPT ![1] = r]
                  /\ doc' = [doc EXCEPT ![1] = d]
                  /\ outcome' = [outcome EXCEPT ![1] = extract_text_from_url(r, d)]
                  /\ http' = extract_text_from_pdf(extract_text_from_url(r, d))
     \/ /\ processor = "mock"
        /\ \E out \in SideEffects :
             /\ outcome' = [outcome EXCEPT ![1] = out]
             /\ http' = extract_text_from_pdf(out)
        /\ UNCHANGED <<response, doc>>
  /\ UNCHANGED <<urls, max_threads, net, parser, processor, sem, pc, dl, pdf_content, ex,
                 starts, downloads, done, results, errors, escaped, bpc, ret>>

NextApi == get_text

\* one request for one URL, answered by PDFProcessor over a small transport
\* and every document of the bounded parser, or by the mock of the tests
InitApi == InitWith({<<"u1">>}, "small", "all") /\ processor \in {"PDFProcessor", "mock"}

SpecApi == InitApi /\ [][NextApi]_vars

(* ============================ properties ============================== *)
InFlight == {i \in Tasks : pc[i] \in {"download", "extract"}}
Returned == bpc = "returned"
Failed(i) == outcome[i].kind \in DomainKinds
Succeeded(i) == outcome[i].kind = "ok"

\* C1: at every instant of a batch, the number of extract_text_from_url
\* invocations that have started and not yet finished is at most max_threads.
C1_ConcurrencyCeiling == Cardinality(InFlight) <= max_threads

\* the ceiling is reached while another URL waits for a slot
C1_Witness ==
  /\ Cardinality(InFlight) = max_threads
  /\ \E i \in Tasks : pc[i] = "waiting"
  /\ \E i \in Tasks : pc[i] = "finished"

\* C2: the returned counts satisfy
\* total_processed = successful + failed = number of input URLs.
C2_CountsAddUp ==
  Returned => /\ ret.total_processed = ret.successful + ret.failed
              /\ ret.total_processed = Len(urls)

\* C3: after the batch returns, every input URL is a key of exactly one of
\* results and errors.
C3_ExactlyOneBucket ==
  Returned => \A i \in Tasks : (urls[i] \in DOMAIN results) # (urls[i] \in DOMAIN errors)

\* C4: a failed URL is recorded in errors, for that URL only; no exception
\* leaves the batch; every URL runs to its own outcome and is recorded with it.
C4_FailureIsolated ==
  /\ ~escaped
  /\ bpc # "raised"
  /\ Returned =>
       /\ \A i \in Tasks :
            /\ Failed(i) \/ Succeeded(i)
            /\ Failed(i) => urls[i] \in DOMAIN errors
            /\ Succeeded(i) => urls[i] \in DOMAIN results
            /\ (\A j \in Tasks : urls[j] = urls[i] => j = i) =>
                 /\ Failed(i) => errors[urls[i]] = outcome[i].msg
                                 /\ urls[i] \notin DOMAIN results
                 /\ Succeeded(i) => results[urls[i]] = Some(outcome[i].text)
                                    /\ urls[i] \notin DOMAIN errors
       /\ \A u \in DOMAIN errors :
            \E i \in Tasks : urls[i] = u /\ Failed(i) /\ errors[u] = outcome[i].msg
       /\ \A u \in DOMAIN results :
            \E i \in Tasks : urls[i] = u /\ Succeeded(i) /\ results[u] = Some(outcome[i].text)

\* a returned batch in which one URL failed and another, different one succeeded
C4_Witness ==
  /\ Returned
  /\ \E i, j \in Tasks : /\ urls[i] # urls[j]
                         /\ outcome[i].kind = "TimeoutError"
                         /\ Succeeded(j)
                         /\ urls[i] \in DOMAIN errors
                         /\ urls[j] \in DOMAIN results

\* C5: extract_text_from_url is started exactly once per element of the
\* input list and the download is attempted exactly once per call, also
\* after a failure.
C5_AttemptedOnce ==
  \A i \in Tasks :
    /\ starts[i] = (IF pc[i] = "waiting" THEN 0 ELSE 1)
    /\ downloads[i] = starts[i]
    /\ Returned => starts[i] = 1 /\ downloads[i] = 1

\* a batch has returned with a failed URL that was started once
C5_Witness ==
  /\ Returned
  /\ \E i \in Tasks : Failed(i) /\ starts[i] = 1 /\ downloads[i] = 1

(* ---------------------- properties of one pipeline -------------------- *)
Downloaded(i) == dl[i].kind # "none"

\* the response has status 200 and a content-length header that int() reads
Declares(i) ==
  /\ response[i].conn = "ok"
  /\ response[i].status = 200
  /\ response[i].content_length.present
  /\ IsDecimal(response[i].content_length.val)

Declared(i) == IntOf(response[i].content_length.val)

TooLargeMsg(i) == <<"File too large: ">> \o response[i].content_length.val \o <<" bytes">>
ExceedsMsg == <<"File exceeds maximum size limit of ", ToString(max_file_size), " bytes">>

\* C6: a 200 response declaring a content-length greater than max_file_size
\* fails with URLError "File too large: <n> bytes" before any chunk is read;
\* a declared length equal to max_file_size does not.
C6_DeclaredTooLarge ==
  \A i \in Tasks :
    Declares(i) =>
      /\ Declared(i) > max_file_size =>
           /\ dl[i].kind = "URLError"
           /\ dl[i].msg = TooLargeMsg(i)
           /\ dl[i].chunks_read = 0
      /\ Declared(i) = max_file_size => dl[i].msg # TooLargeMsg(i)

\* a response with a body declares more than the limit and is refused
C6_Witness ==
  \E i \in Tasks : /\ Declares(i)
                   /\ Declared(i) > max_file_size
                   /\ Len(response[i].chunks) > 0
                   /\ dl[i].msg = TooLargeMsg(i)

RECURSIVE Size(_, _)
\* the cumulative size of the first k chunks
Size(chunks, k) == IF k = 0 THEN 0 ELSE Size(chunks, k - 1) + chunks[k]

\* the response reaches _read_with_limit: no header, an empty one, or one
\* declaring at most the limit
WithinDeclared(i) ==
  /\ response[i].conn = "ok"
  /\ response[i].status = 200
  /\ \/ ~response[i].content_length.present
     \/ response[i].content_length.val = <<>>
     \/ Declares(i) /\ Declared(i) <= max_file_size

Overruns(i) == {k \in 1..Len(response[i].chunks) : Size(response[i].chunks, k) > max_file_size}

\* C7: when the declared length is absent or within the limit, the read fails
\* with "File exceeds maximum size limit" exactly when the cumulative size of
\* the chunks exceeds the limit, at the first chunk that does so; a body of
\* exactly the limit is returned whole.
C7_ReadWithLimit ==
  \A i \in Tasks :
    WithinDeclared(i) =>
      /\ (dl[i].kind = "URLError" /\ dl[i].msg = ExceedsMsg) <=> Overruns(i) # {}
      /\ Overruns(i) # {} =>
           /\ dl[i].chunks_read \in Overruns(i)
           /\ \A k \in Overruns(i) : dl[i].chunks_read <= k
      /\ (response[i].end = "eof"
          /\ Size(response[i].chunks, Len(response[i].chunks)) = max_file_size) =>
           /\ dl[i].kind = "ok"
           /\ dl[i].value = max_file_size
           /\ dl[i].chunks_read = Len(response[i].chunks)
           /\ pdf_content[i] = max_file_size

\* a body overruns the limit after its first chunk although the header
\* declares a length within the limit
C7_Witness ==
  \E i \in Tasks : /\ Declares(i)
                   /\ Declared(i) <= max_file_size
                   /\ dl[i].msg = ExceedsMsg
                   /\ dl[i].chunks_read >= 2

\* C8: a URLError, TimeoutError or PDFProcessingError raised by the download
\* or by the extraction reaches the caller of extract_text_from_url with the
\* same kind and message.
C8_PropagatedUnchanged ==
  \A i \in Tasks :
    /\ dl[i].kind \in DomainKinds =>
         outcome[i].kind = dl[i].kind /\ outcome[i].msg = dl[i].msg
    /\ ex[i].kind \in DomainKinds =>
         outcome[i].kind = ex[i].kind /\ outcome[i].msg = ex[i].msg

\* a download timeout has reached the caller
C8_Witness ==
  \E i \in Tasks : /\ dl[i].kind = "TimeoutError"
                   /\ outcome[i].kind = "TimeoutError"
                   /\ pc[i] = "finished"

\* C9: an exception at the boundary of extract_text_from_url that is not of
\* a domain kind is re-wrapped as PDFProcessingError "Unexpected error", so
\* every failure of extract_text_from_url has one of the three domain kinds.
C9_UnexpectedWrapped ==
  \A i \in Tasks :
    /\ (Downloaded(i) /\ dl[i].kind \notin DomainKinds \cup {"ok"}) =>
         /\ outcome[i].kind = "PDFProcessingError"
         /\ outcome[i].msg = <<"Unexpected error: ">> \o dl[i].msg
    /\ outcome[i].kind \in DomainKinds \cup {"ok", "none"}
    /\ ex[i].kind \in DomainKinds \cup {"ok", "none"}

\* a ValueError of the download step has been re-wrapped
C9_Witness ==
  \E i \in Tasks : /\ dl[i].kind = "ValueError"
                   /\ outcome[i].kind = "PDFProcessingError"
                   /\ pc[i] = "finished"

\* C10: whenever extract_text_from_url fails with PDFProcessingError, the
\* download step had completed and returned bytes.
C10_ProcessingErrorAfterDownload ==
  \A i \in Tasks :
    outcome[i].kind = "PDFProcessingError" => dl[i].kind = "ok" /\ pdf_content[i] > 0

(* ---------------------- properties of the extraction ------------------ *)
Blank(t) == \A k \in 1..Len(t) : t[k] \in Whitespace
Readable(page) == ~page.raises /\ ~Blank(page.text)
Printable(page) == Len(page.text) = 1 /\ page.text[1] \notin Whitespace

Extracted(i) == ex[i].kind # "none"
Opened(i) == doc[i].open = "ok"
NoReadableMsg == <<"No readable text found in PDF">>

\* C11: for a non-encrypted document with at least one page, the pages whose
\* text retrieval raises or whose text is blank are skipped, the result is
\* the normalization of the texts of the others joined in page order with a
\* blank line, and the extraction fails with "No readable text found in PDF"
\* exactly when no page remains.
C11_PagesJoinedInOrder ==
  \A i \in Tasks :
    (Opened(i) /\ ~doc[i].is_encrypted /\ Len(doc[i].pages) >= 1) =>
      LET kept == SelectSeq(doc[i].pages, Readable)
          texts == [k \in 1..Len(kept) |-> kept[k].text]
      IN /\ ex[i].pages_visited = Len(doc[i].pages)
         /\ (ex[i].kind = "PDFProcessingError" /\ ex[i].msg = NoReadableMsg) <=> kept = <<>>
         /\ kept # <<>> =>
              /\ ex[i].kind = "ok"
              /\ ex[i].text = _clean_text(Join(texts, <<"\n", "\n">>))
              /\ (\A k \in 1..Len(kept) : Printable(kept[k])) =>
                   /\ Len(ex[i].text) = 2 * Len(kept) - 1
                   /\ \A k \in 1..Len(kept) : ex[i].text[2 * k - 1] = kept[k].text[1]
                   /\ \A k \in 1..(Len(kept) - 1) : ex[i].text[2 * k] = "\n"

\* the first page raises and the text of the second one is returned
C11_Witness ==
  \E i \in Tasks : /\ Opened(i)
                   /\ Len(doc[i].pages) = 2
                   /\ doc[i].pages[1].raises
                   /\ ex[i].kind = "ok"
                   /\ ex[i].text = doc[i].pages[2].text
                   /\ pc[i] = "finished"

EncryptedMsg == <<"PDF is encrypted and cannot be processed">>
NoPagesMsg == <<"PDF has no pages">>

\* C12: an encrypted document fails with "PDF is encrypted and cannot be
\* processed" before any page is accessed, whatever its page count; a
\* non-encrypted document without pages fails with "PDF has no pages".
C12_EncryptedBeforePages ==
  \A i \in Tasks :
    Opened(i) =>
      /\ doc[i].is_encrypted =>
           /\ ex[i].kind = "PDFProcessingError"
           /\ ex[i].msg = EncryptedMsg
           /\ ex[i].pages_visited = 0
           /\ outcome[i].kind = "PDFProcessingError"
           /\ outcome[i].msg = EncryptedMsg
      /\ (~doc[i].is_encrypted /\ Len(doc[i].pages) = 0) =>
           /\ ex[i].kind = "PDFProcessingError"
           /\ ex[i].msg = NoPagesMsg

\* an encrypted document without pages is reported as encrypted
C12_Witness ==
  \E i \in Tasks : /\ Opened(i)
                   /\ doc[i].is_encrypted
                   /\ Len(doc[i].pages) = 0
                   /\ ex[i].msg = EncryptedMsg
                   /\ pc[i] = "finished"

(* --------------------- properties of the normalization ---------------- *)
\* the lines of a text; the empty text has none
Lines(text) == IF text = <<>> THEN <<>> ELSE Split(text, "\n")

\* no empty line, no line with leading or trailing whitespace, no two
\* consecutive spaces
Tidy(text) ==
  /\ \A k \in 1..Len(Lines(text)) :
       LET line == Lines(text)[k]
       IN /\ Len(line) > 0
          /\ line[1] \notin Whitespace
          /\ line[Len(line)] \notin Whitespace
  /\ \A k \in 1..(Len(text) - 1) : ~(text[k] = " " /\ text[k + 1] = " ")

Idempotent(text) == LET c == _clean_text(text) IN _clean_text(c) = c /\ Tidy(c)

\* "  a  b  \n\n  \n  b   " is normalized to "a b\nb"
CleanExample ==
  _clean_text(<<" ", " ", "a", " ", " ", "b", " ", " ", "\n", "\n", " ", " ", "\n",
                " ", " ", "b", " ", " ", " ">>)
    = <<"a", " ", "b", "\n", "b">>

\* C13: _clean_text is idempotent on every text of the bounded alphabet, and
\* its output has no empty line, no line with leading or trailing whitespace
\* and no two consecutive spaces.
C13_CleanTextIdempotent ==
  /\ CleanExample
  /\ \A i \in Tasks :
       Opened(i) =>
         /\ \A k \in 1..Len(doc[i].pages) : Idempotent(doc[i].pages[k].text)
         /\ ex[i].kind = "ok" => _clean_text(ex[i].text) = ex[i].text /\ Tidy(ex[i].text)

\* a text with a run of spaces has been normalized
C13_Witness ==
  \E i \in Tasks : /\ Opened(i)
                   /\ Len(doc[i].pages) = 1
                   /\ doc[i].pages[1].text = <<"a", " ", " ", "b">>
                   /\ ex[i].text = <<"a", " ", "b">>
                   /\ pc[i] = "finished"

NoTextMsg == <<"No text content found in PDF">>

\* C18: a normal return of _extract_text_from_bytes contains a character
\* that is not whitespace, the emptiness check of extract_text_from_url
\* never fires, and a successful result of extract_text_from_url is
\* non-empty without leading or trailing whitespace.
C18_ExtractedTextNotBlank ==
  \A i \in Tasks :
    /\ ex[i].kind = "ok" => ~Blank(ex[i].text)
    /\ outcome[i].msg # NoTextMsg
    /\ Succeeded(i) =>
         /\ outcome[i].text # <<>>
         /\ outcome[i].text[1] \notin Whitespace
         /\ outcome[i].text[Len(outcome[i].text)] \notin Whitespace
         /\ outcome[i].text = ex[i].text

\* a page text wrapped in whitespace has been returned without it
C18_Witness ==
  \E i \in Tasks : /\ Succeeded(i)
                   /\ Len(doc[i].pages) = 1
                   /\ doc[i].pages[1].text = <<"\t", "a", " ">>
                   /\ outcome[i].text = <<"a">>

(* ------------------- properties of the worker threads ----------------- *)
\* the tasks whose _extract_text_from_bytes runs in the executor of their
\* extract_text_from_url call (lines 47-52)
Extracting == {i \in Tasks : pc[i] = "extract"}

\* C14: the number of _extract_text_from_bytes executions running at the
\* same time never exceeds the capacity of one shared worker pool.
C14_SharedPoolBound == Cardinality(Extracting) <= max_workers

\* /get_text has answered its request
Responded == http # NoHttp

\* C15: the /get_text handler answers by the kind of what
\* extract_text_from_url gave: URLError 400, TimeoutError 408,
\* PDFProcessingError 422, any other exception 500, and a returned text 200
\* with that text and character_count its length; a failure is answered
\* with exactly one of the four failure statuses.
C15_StatusByKind ==
  Responded =>
    LET out == outcome[1]
    IN /\ out.kind = "URLError" => http.status_code = 400
       /\ out.kind = "TimeoutError" => http.status_code = 408
       /\ out.kind = "PDFProcessingError" => http.status_code = 422
       /\ out.kind \notin DomainKinds \cup {"ok"} => http.status_code = 500
       /\ out.kind = "ok" =>
            /\ http.status_code = 200
            /\ http.text = out.text
            /\ http.character_count = Len(out.text)
       /\ out.kind # "ok" =>
            Cardinality({c \in {400, 408, 422, 500} : http.status_code = c}) = 1

\* PDFProcessor timed out on the download and the request was answered 408
C15_Witness ==
  /\ processor = "PDFProcessor"
  /\ response[1].conn = "timeout"
  /\ outcome[1].kind = "TimeoutError"
  /\ http.status_code = 408

\* C16: within one extract_text_from_url call the extraction starts only
\* after the download has returned its bytes, the emptiness check and the
\* result come only after the extraction has returned, and a failed
\* download never starts the extraction.
C16_StepsSequential ==
  \A i \in Tasks :
    /\ pc[i] \in {"waiting", "download"} =>
         ~Downloaded(i) /\ ~Extracted(i) /\ outcome[i].kind = "none" /\ pdf_content[i] = -1
    /\ pc[i] = "extract" =>
         /\ dl[i].kind = "ok"
         /\ pdf_content[i] = dl[i].value
         /\ pdf_content[i] > 0
         /\ ~Extracted(i)
         /\ outcome[i].kind = "none"
    /\ Extracted(i) => dl[i].kind = "ok" /\ pc[i] = "finished"
    /\ (Downloaded(i) /\ dl[i].kind # "ok") =>
         /\ ~Extracted(i)
         /\ doc[i] = NoDoc
         /\ pdf_content[i] = -1
         /\ pc[i] = "finished"
    /\ Succeeded(i) => ex[i].kind = "ok" /\ outcome[i].text = Strip(ex[i].text)

\* a download has failed and the task has ended without an extraction
C16_Witness ==
  \E i \in Tasks : /\ dl[i].kind = "URLError"
                   /\ pc[i] = "finished"
                   /\ ~Extracted(i)
                   /\ bpc = "returned"

(* ----------------------- progress of a batch -------------------------- *)
\* C17: the free permits plus the in-flight pipelines always equal
\* max_threads (a permit is released on the failure path as on the success
\* path), every URL waiting for a slot is eventually admitted and the batch
\* eventually returns.
C17_PermitsReleased ==
  /\ [](sem + Cardinality(InFlight) = max_threads)
  /\ \A i \in 1..MaxUrls :
       (i \in Tasks /\ pc[i] = "waiting") ~> (i \in Tasks /\ pc[i] # "waiting")
  /\ <>(bpc = "returned")

\* with one permit, a URL is in flight after another one has failed
C17_Witness ==
  /\ max_threads = 1
  /\ sem = 0
  /\ \E i, j \in Tasks : /\ Failed(i)
                         /\ pc[i] = "finished"
                         /\ pc[j] \in {"download", "extract"}
====
